---- MODULE Spec2Model ----
(***************************************************************************)
(* A model of the text helpers and container classes of visaplan.tools:   *)
(*   - entity_aware      (src/visaplan/tools/html.py)                      *)
(*   - LineInfo and from_plain_text (src/visaplan/tools/_builder.py)       *)
(*   - sequence_slide    (src/visaplan/tools/sequences.py)                 *)
(*   - WriteProtected, ChangeProtected, StackOfDicts and UniqueStack       *)
(*                       (src/visaplan/tools/classes.py)                   *)
(*                                                                         *)
(* A Python string is a sequence of one-character strings; Python's None   *)
(* in a string-valued slot is the empty sequence (no such slot of the      *)
(* modelled code ever holds the empty string, except LineInfo.text, which  *)
(* is never None).                                                         *)
(***************************************************************************)
EXTENDS Integers, Sequences, FiniteSets, TLC

VARIABLES
    s,          \* entity_aware: the argument
    s_type,     \* entity_aware: the Python type of the argument
    pos,        \* entity_aware: number of characters of s the for loop has consumed
    v,          \* entity_aware: the dict v (entity_prefix, onshelf, in_entity)
    buf,        \* entity_aware: the list buf
    yielded,    \* entity_aware: the atoms yielded so far, in order
    pc,         \* entity_aware: "loop", "done" (generator exhausted), "raised" (an exception)
    txt,        \* from_plain_text: the argument (text)
    txt_type,   \* from_plain_text: the Python type of the argument
    joiner,     \* from_plain_text: the joiner argument
    idx,        \* from_plain_text: number of (prev_o, o, next_o) triples consumed
    in_list,    \* from_plain_text: the in_list flag (False/0 or 1)
    res,        \* from_plain_text: the list res of tokens
    html,       \* from_plain_text: the returned string
    fpc,        \* from_plain_text: "loop", "done", "raised" (an exception)
    line,       \* LineInfo: the constructor argument
    o,          \* LineInfo: the constructed object's fields
    lpc,        \* LineInfo: "new", "done"
    sl_seq,     \* sequence_slide: the argument seq
    sl_missing, \* sequence_slide: the argument missing
    sl_out,     \* sequence_slide: the triples it yields, in order
    slpc,       \* sequence_slide: "new", "done"
    ust,        \* UniqueStack: the list itself
    ustpc,      \* UniqueStack: "live" once constructed
    wp_class,   \* WriteProtected: the class of the dict, or "ChangeProtected"
    wp_data,    \* WriteProtected: the items of the dict
    wp_frozen,  \* WriteProtected: _frozen
    wp_call,    \* WriteProtected: the last call and how it ended
    sod_stack,        \* StackOfDicts: _stack
    sod_key_lists,    \* StackOfDicts: _key_lists
    sod_checked,      \* StackOfDicts: _checked
    sod_allowed_keys, \* StackOfDicts: _allowed_keys (the empty set if not checked)
    sod_ret,          \* StackOfDicts: the last call and what it returned or raised
    sodpc,            \* StackOfDicts: "live" once constructed
    lk_opts,    \* ConvenientLock: _opts, or how check_lockfile_options raised
    lk_path,    \* the lock file: the inode its name leads to, 0 if there is none
    lk_proc     \* the processes: where each one is, its open file and its lock

eaVars  == <<s, s_type, pos, v, buf, yielded, pc>>
fptVars == <<txt, txt_type, joiner, idx, in_list, res, html, fpc>>
liVars  == <<line, o, lpc>>
slVars  == <<sl_seq, sl_missing, sl_out, slpc>>
\* the variables outside entity_aware, from_plain_text and LineInfo
usVars  == <<ust, ustpc>>
wpVars  == <<wp_class, wp_data, wp_frozen, wp_call>>
sodVars == <<sod_stack, sod_key_lists, sod_checked, sod_allowed_keys, sod_ret, sodpc>>
\* the variables of the classes of classes.py
clsVars == <<usVars, wpVars, sodVars>>
\* the variables of lock.py
lockVars == <<lk_opts, lk_path, lk_proc>>
xVars   == <<slVars, clsVars, lockVars>>
vars    == <<s, s_type, pos, v, buf, yielded, pc, txt, txt_type, joiner, idx, in_list, res, html, fpc, line, o, lpc,
             sl_seq, sl_missing, sl_out, slpc, ust, ustpc, wp_class, wp_data, wp_frozen,
             wp_call, sod_stack, sod_key_lists, sod_checked, sod_allowed_keys, sod_ret, sodpc,
             lk_opts, lk_path, lk_proc>>

None == << >>

Last(q) == q[Len(q)]

RECURSIVE Concat(_)
\* ''.join(q) for a sequence q of strings
Concat(q) == IF q = << >> THEN << >> ELSE Head(q) \o Concat(Tail(q))

\* the characters of a string, each as a string of its own
Chars(str) == [k \in 1..Len(str) |-> <<str[k]>>]

(***************************************************************************)
(* entity_aware                                                            *)
(***************************************************************************)
Digits == {"0", "1", "2", "3", "4", "5", "6", "7", "8", "9"}
LowerCase == {"a", "b", "c", "d", "e", "f", "g", "h", "i", "j", "k", "l", "m",
              "n", "o", "p", "q", "r", "s", "t", "u", "v", "w", "x", "y", "z"}
UpperCase == {"A", "B", "C", "D", "E", "F", "G", "H", "I", "J", "K", "L", "M",
              "N", "O", "P", "Q", "R", "S", "T", "U", "V", "W", "X", "Y", "Z"}

\* _ENTITY_CHARS: the characters allowed in the body of an entity, by prefix
ENTITY_CHARS(prefix) ==
    CASE prefix = <<"&">>           -> LowerCase \cup UpperCase \cup Digits \cup {"_"}
      [] prefix = <<"&", "#">>      -> Digits
      [] prefix = <<"&", "#", "x">> -> Digits \cup {"a", "b", "c", "d", "e", "f"}
                                              \cup {"A", "B", "C", "D", "E", "F"}

\* the special entity '&#195;'
Shelf195 == <<"&", "#", "1", "9", "5", ";">>

\* v and buf as entity_aware creates them; out collects what is yielded,
\* raised tells that an assert statement failed
ScanInit == [v      |-> [entity_prefix |-> None, onshelf |-> None, in_entity |-> 0],
             buf    |-> << >>,
             out    |-> << >>,
             raised |-> FALSE]

\* a plausible slip in flush: 'del buf[:]' forgotten
flush_keeps_buf(st, ch) ==
    LET shelf  == IF st.v.onshelf # None THEN <<st.v.onshelf>> ELSE << >>
        prefix == st.v.entity_prefix
        pre    == IF prefix # None THEN Chars(prefix)
                  ELSE IF st.v.in_entity # 0 THEN << <<"&">> >> ELSE << >>
        last   == IF ch # None THEN <<ch>> ELSE << >>
    IN  [st EXCEPT !.out = @ \o shelf \o pre \o Chars(st.buf) \o last,
                   !.v   = [entity_prefix |-> None, onshelf |-> None, in_entity |-> 0]]

\* a plausible slip in flush: the pending bare '&' is forgotten
flush_drops_ampersand(st, ch) ==
    LET shelf  == IF st.v.onshelf # None THEN <<st.v.onshelf>> ELSE << >>
        prefix == st.v.entity_prefix
        pre    == IF prefix # None THEN Chars(prefix) ELSE << >>
        last   == IF ch # None THEN <<ch>> ELSE << >>
    IN  [st EXCEPT !.out = @ \o shelf \o pre \o Chars(st.buf) \o last,
                   !.v   = [entity_prefix |-> None, onshelf |-> None, in_entity |-> 0],
                   !.buf = << >>]

\* flush(ch=None): yield the shelf, the prefix (or the bare '&'), the buffered
\* characters and ch, and reset the scanner
flush(st, ch) ==
    LET shelf  == IF st.v.onshelf # None THEN <<st.v.onshelf>> ELSE << >>
        prefix == st.v.entity_prefix
        pre    == IF prefix # None THEN Chars(prefix)
                  ELSE IF st.v.in_entity # 0 THEN << <<"&">> >> ELSE << >>
        last   == IF ch # None THEN <<ch>> ELSE << >>
    IN  [st EXCEPT !.out = @ \o shelf \o pre \o Chars(st.buf) \o last,
                   !.v   = [entity_prefix |-> None, onshelf |-> None, in_entity |-> 0],
                   !.buf = << >>]

\* complete_entity(ch): the three asserts, then the entity and the reset
complete_entity(st, ch) ==
    IF st.v.entity_prefix = None \/ st.v.in_entity = 0 \/ st.buf = << >>
    THEN [st |-> [st EXCEPT !.raised = TRUE], ent |-> None]
    ELSE [st  |-> [st EXCEPT !.buf = << >>,
                             !.v.entity_prefix = None,
                             !.v.in_entity = 0],
          ent |-> st.v.entity_prefix \o st.buf \o <<ch>>]

\* a plausible slip in the loop body: a completed entity is never merged
\* with the shelf, the shelf is yielded on its own
entity_aware_step_nomerge(st, ch) ==
    IF ch = "&" THEN
        [(IF st.v.onshelf = None THEN flush(st, None) ELSE st) EXCEPT !.v.in_entity = 1]
    ELSE IF st.buf # << >> THEN
        IF st.v.in_entity = 0 \/ st.v.entity_prefix = None THEN [st EXCEPT !.raised = TRUE]
        ELSE IF ch = ";" THEN
            LET c == complete_entity(st, ch) IN
            IF c.st.raised THEN c.st
            ELSE IF c.ent = Shelf195 /\ c.st.v.onshelf = None THEN [c.st EXCEPT !.v.onshelf = c.ent]
            ELSE flush(c.st, c.ent)
        ELSE IF ch \in ENTITY_CHARS(st.v.entity_prefix) THEN [st EXCEPT !.buf = Append(@, ch)]
        ELSE LET f == flush(st, None) IN [f EXCEPT !.out = Append(@, <<ch>>)]
    ELSE IF st.v.entity_prefix # None THEN
        IF ch \in ENTITY_CHARS(st.v.entity_prefix) THEN [st EXCEPT !.buf = Append(@, ch)]
        ELSE flush(st, <<ch>>)
    ELSE IF st.v.in_entity # 0 THEN
        IF ch = "#" THEN [st EXCEPT !.v.entity_prefix = <<"&", ch>>]
        ELSE IF ch \in ENTITY_CHARS(<<"&">>) THEN
            [st EXCEPT !.out = IF st.v.onshelf # None THEN Append(@, st.v.onshelf) ELSE @,
                       !.v.onshelf = None,
                       !.v.entity_prefix = <<"&">>,
                       !.buf = Append(@, ch)]
        ELSE flush(st, <<ch>>)
    ELSE flush(st, <<ch>>)

\* the body of 'for ch in s', for one character ch
entity_aware_step(st, ch) ==
    IF ch = "&" THEN
        [(IF st.v.onshelf = None THEN flush(st, None) ELSE st) EXCEPT !.v.in_entity = 1]
    ELSE IF st.buf # << >> THEN
        IF st.v.in_entity = 0 \/ st.v.entity_prefix = None THEN [st EXCEPT !.raised = TRUE]
        ELSE IF ch = ";" THEN
            LET c == complete_entity(st, ch) IN
            IF c.st.raised THEN c.st
            ELSE IF c.st.v.onshelf # None THEN
                [c.st EXCEPT !.out = Append(@, c.st.v.onshelf \o c.ent),
                             !.v.onshelf = None]
            ELSE IF c.ent = Shelf195 THEN [c.st EXCEPT !.v.onshelf = c.ent]
            ELSE flush(c.st, c.ent)
        ELSE IF ch \in ENTITY_CHARS(st.v.entity_prefix) THEN [st EXCEPT !.buf = Append(@, ch)]
        ELSE LET f == flush(st, None) IN
             IF ch = "&" THEN [f EXCEPT !.v.in_entity = 1]
             ELSE [f EXCEPT !.out = Append(@, <<ch>>)]
    ELSE IF st.v.entity_prefix # None THEN
        IF ch \in ENTITY_CHARS(st.v.entity_prefix) THEN [st EXCEPT !.buf = Append(@, ch)]
        ELSE flush(st, <<ch>>)
    ELSE IF st.v.in_entity # 0 THEN
        IF ch = "#" THEN [st EXCEPT !.v.entity_prefix = <<"&", ch>>]
        ELSE IF ch \in ENTITY_CHARS(<<"&">>) THEN
            [st EXCEPT !.out = IF st.v.onshelf # None THEN Append(@, st.v.onshelf) ELSE @,
                       !.v.onshelf = None,
                       !.v.entity_prefix = <<"&">>,
                       !.buf = Append(@, ch)]
        ELSE flush(st, <<ch>>)
    ELSE flush(st, <<ch>>)

RECURSIVE scan_from(_, _)
\* the for loop over the characters of str, started in scanner state st;
\* it stops where an assert fails
scan_from(st, str) ==
    IF str = << >> \/ st.raised THEN st
    ELSE scan_from(entity_aware_step(st, Head(str)), Tail(str))

\* everything entity_aware yields when started in state st on str:
\* the loop, then the final flush()
atoms_from(st, str) ==
    LET e == scan_from(st, str) IN IF e.raised THEN e.out ELSE flush(e, None).out

\* list(entity_aware(str))
entity_aware(str) == atoms_from(ScanInit, str)

\* the scanner state held in the variables
Cur == [v |-> v, buf |-> buf, out |-> yielded, raised |-> pc = "raised"]

\* the part of s the loop has not read yet
Rest == SubSeq(s, pos + 1, Len(s))

(***************************************************************************)
(* Inputs of entity_aware: the strings made of at most MaxChunks chunks.   *)
(***************************************************************************)
MaxChunks == 4

Chunks == { <<"&">>, <<"#">>, <<";">>, <<"1">>, <<"a">>,
            Shelf195, <<"&", "#", "1", ";">> }

RECURSIVE ChunkStrings(_)
ChunkStrings(n) ==
    IF n = 0 THEN { << >> }
    ELSE { << >> } \cup { c \o t : c \in Chunks, t \in ChunkStrings(n - 1) }

\* the other two machines at rest
FptIdle == /\ txt = << >> /\ txt_type = "idle" /\ joiner = << >> /\ idx = 0 /\ in_list = 0
           /\ res = << >> /\ html = << >> /\ fpc = "idle"
LiIdle  == /\ line = << >> /\ o = [idle |-> TRUE] /\ lpc = "idle"
SlIdle  == /\ sl_seq = << >> /\ sl_missing = [idle |-> TRUE] /\ sl_out = << >>
           /\ slpc = "idle"
\* a dict is a function from its keys to its values; {}
EmptyDict == [k \in {} |-> 0]

UsIdle  == ust = << >> /\ ustpc = "idle"
WpIdle  == /\ wp_class = "idle" /\ wp_data = EmptyDict /\ wp_frozen = FALSE
           /\ wp_call = [op |-> "none"]
SodIdle == /\ sod_stack = << >> /\ sod_key_lists = << >> /\ sod_checked = FALSE
           /\ sod_allowed_keys = {} /\ sod_ret = [op |-> "none"] /\ sodpc = "idle"
ClsIdle == UsIdle /\ WpIdle /\ SodIdle
LockIdle == lk_opts = [idle |-> TRUE] /\ lk_path = 0 /\ lk_proc = << >>
XIdle   == SlIdle /\ ClsIdle /\ LockIdle
EaIdle  == /\ s = << >> /\ s_type = "idle" /\ pos = 0 /\ v = ScanInit.v /\ buf = << >>
           /\ yielded = << >> /\ pc = "idle"

\* the types whose values 'for ch in s' can iterate over (html.py:251); the
\* items of a list are one-character strings
Iterable == {"str", "list"}

\* the call entity_aware(s) with a text s
EaStart == /\ s_type = "str"
           /\ pos = 0
           /\ v = ScanInit.v
           /\ buf = ScanInit.buf
           /\ yielded = ScanInit.out
           /\ pc = "loop"

Init == /\ s \in ChunkStrings(MaxChunks)
        /\ EaStart
        /\ FptIdle
        /\ LiIdle
        /\ XIdle

\* one turn of 'for ch in s'
Step == /\ pc = "loop"
        /\ s_type \in Iterable
        /\ pos < Len(s)
        /\ LET n == entity_aware_step(Cur, s[pos + 1]) IN
              /\ v' = n.v
              /\ buf' = n.buf
              /\ yielded' = n.out
              /\ pc' = IF n.raised THEN "raised" ELSE "loop"
        /\ pos' = pos + 1
        /\ UNCHANGED <<s, s_type, fptVars, liVars, xVars>>

\* the loop is over: the final 'for item in flush(): yield item'
Finish == /\ pc = "loop"
          /\ s_type \in Iterable
          /\ pos = Len(s)
          /\ LET n == flush(Cur, None) IN
                /\ v' = n.v
                /\ buf' = n.buf
                /\ yielded' = n.out
          /\ pc' = "done"
          /\ UNCHANGED <<s, s_type, pos, fptVars, liVars, xVars>>

\* 'for ch in s' with an s that cannot be iterated over: TypeError
NotIterable == /\ pc = "loop"
               /\ s_type \notin Iterable
               /\ pc' = "raised"
               /\ UNCHANGED <<s, s_type, pos, v, buf, yielded, fptVars, liVars, xVars>>

Next == Step \/ Finish

Spec == Init /\ [][Next]_vars

(***************************************************************************)
(* LineInfo                                                                *)
(***************************************************************************)
\* string.whitespace (the vertical tab '\x0b' has no TLA+ spelling and no
\* input of the model holds it)
whitespace == {" ", "\t", "\n", "\r", "\f"}

\* BULLET_CHARS; "bull" stands for the one character U+2022, &bull;
BULLET_CHARS == {"bull", "*", "-", "+"}

RECURSIVE rstrip(_)
\* str.rstrip()
rstrip(str) ==
    IF str # << >> /\ Last(str) \in whitespace THEN rstrip(SubSeq(str, 1, Len(str) - 1))
    ELSE str

\* a str.lstrip() that strips nothing
lstrip_not(str) == str

RECURSIVE lstrip(_)
\* str.lstrip()
lstrip(str) ==
    IF str # << >> /\ Head(str) \in whitespace THEN lstrip(Tail(str)) ELSE str

RECURSIVE LineInfo_scan_bulletpref(_, _, _, _)
\* a scan that keeps the leading whitespace only in front of a bullet
LineInfo_scan_bulletpref(str, k, bullet, pref) ==
    IF k > Len(str) THEN [bullet |-> None, pref |-> << >>]
    ELSE IF str[k] \in BULLET_CHARS THEN LineInfo_scan_bulletpref(str, k + 1, <<str[k]>>, pref)
    ELSE IF str[k] \in whitespace THEN
        IF bullet = None THEN LineInfo_scan_bulletpref(str, k + 1, bullet, Append(pref, str[k]))
        ELSE [bullet |-> bullet, pref |-> pref]
    ELSE [bullet |-> None, pref |-> << >>]

RECURSIVE LineInfo_scan(_, _, _, _)
\* 'for ch in s' of LineInfo.__init__, from character k on, with the local
\* bullet and the list pref: what self.bullet and pref are when it ends
LineInfo_scan(str, k, bullet, pref) ==
    IF k > Len(str) THEN [bullet |-> None, pref |-> pref]
    ELSE IF str[k] \in BULLET_CHARS THEN LineInfo_scan(str, k + 1, <<str[k]>>, pref)
    ELSE IF str[k] \in whitespace THEN
        IF bullet = None THEN LineInfo_scan(str, k + 1, bullet, Append(pref, str[k]))
        ELSE [bullet |-> bullet, pref |-> pref]
    ELSE [bullet |-> None, pref |-> pref]

\* LineInfo(s): the fields of the new object
LineInfo(str) ==
    LET r       == rstrip(str)
        scanned == LineInfo_scan(r, 1, None, << >>)
        offset  == (IF scanned.pref # << >> THEN Len(scanned.pref) ELSE 0)
                   + (IF scanned.bullet # None THEN 2 ELSE 0)
        text    == lstrip(SubSeq(r, offset + 1, Len(r)))
    IN  [bullet |-> scanned.bullet,
         prefix |-> IF scanned.pref # << >> THEN scanned.pref ELSE None,
         text   |-> text,
         empty  |-> text = << >>]

(***************************************************************************)
(* sequence_slide                                                          *)
(***************************************************************************)
\* the value sequence_slide puts in place of a missing neighbour (None)
Missing == [missing |-> TRUE]
IsMissing(x) == "missing" \in DOMAIN x

\* q[i:j] of Python, i and j counted from 0
Slice(q, i, j) ==
    LET hi == IF j < Len(q) THEN j ELSE Len(q) IN
    IF i >= hi THEN << >> ELSE SubSeq(q, i + 1, hi)

RECURSIVE sequence_slide_loop(_, _, _, _, _, _)
\* 'for item in seq' of sequence_slide, from item k on
sequence_slide_loop(seq, k, sbuf, bufsize, after_head, out) ==
    IF k > Len(seq) THEN [sbuf |-> sbuf, bufsize |-> bufsize, out |-> out]
    ELSE IF after_head
         THEN sequence_slide_loop(seq, k + 1, Append(Tail(sbuf), seq[k]), bufsize,
                                  after_head, Append(out, sbuf))
         ELSE sequence_slide_loop(seq, k + 1, Append(sbuf, seq[k]), bufsize + 1,
                                  bufsize + 1 >= 2, out)

\* a sequence_slide without its second loop
sequence_slide_head(seq, missing) ==
    sequence_slide_loop(seq, 1, <<missing>>, 0, FALSE, << >>).out

\* list(sequence_slide(seq, missing))
sequence_slide(seq, missing) ==
    LET r    == sequence_slide_loop(seq, 1, <<missing>>, 0, FALSE, << >>)
        sbuf == Append(r.sbuf, missing)
    IN  r.out \o [i \in 1..r.bufsize |-> Slice(sbuf, i - 1, i + 2)]

\* the longest sequence given to sequence_slide
MaxSeqLen == 4

\* the items of the sequences
SlideItems == { [item |-> c] : c \in {"a", "b", "c"} }

RECURSIVE SlideSeqs(_)
SlideSeqs(n) ==
    IF n = 0 THEN { << >> }
    ELSE { << >> } \cup { <<x>> \o q : x \in SlideItems, q \in SlideSeqs(n - 1) }

InitSlide == /\ sl_seq \in SlideSeqs(MaxSeqLen)
             /\ sl_missing \in {Missing, [item |-> "none"]}
             /\ sl_out = << >>
             /\ slpc = "new"
             /\ EaIdle
             /\ FptIdle
             /\ LiIdle
             /\ ClsIdle /\ LockIdle

\* list(sequence_slide(sl_seq, missing=sl_missing))
Slide == /\ slpc = "new"
         /\ sl_out' = sequence_slide(sl_seq, sl_missing)
         /\ slpc' = "done"
         /\ UNCHANGED <<sl_seq, sl_missing, eaVars, fptVars, liVars, clsVars, lockVars>>

SpecSlide == InitSlide /\ [][Slide]_vars

(***************************************************************************)
(* from_plain_text                                                         *)
(***************************************************************************)
TagP       == <<"<", "p", ">">>
TagUl      == <<"<", "u", "l", ">">>
TagCloseUl == <<"<", "/", "u", "l", ">">>
TagLi      == <<"<", "l", "i", ">">>
TagBr      == <<"<", "b", "r", ">">>

\* html.escape(s) for one character
escape_char(ch) ==
    CASE ch = "&"  -> <<"&", "a", "m", "p", ";">>
      [] ch = "<"  -> <<"&", "l", "t", ";">>
      [] ch = ">"  -> <<"&", "g", "t", ";">>
      [] ch = "\"" -> <<"&", "q", "u", "o", "t", ";">>
      [] ch = "'"  -> <<"&", "#", "x", "2", "7", ";">>
      [] OTHER     -> <<ch>>

\* a plausible slip: the text is appended as it is
html_escape_not(str) == str

\* html_escape(s)
html_escape(str) == Concat([k \in 1..Len(str) |-> escape_char(str[k])])

RECURSIVE splitlines_loop(_, _, _, _)
splitlines_loop(str, k, cur, out) ==
    IF k > Len(str) THEN (IF cur # << >> THEN Append(out, cur) ELSE out)
    ELSE IF str[k] = "\n" THEN splitlines_loop(str, k + 1, << >>, Append(out, cur))
    ELSE splitlines_loop(str, k + 1, Append(cur, str[k]), out)

\* txt.splitlines(), for texts whose only line boundary is '\n'
splitlines(str) == splitlines_loop(str, 1, << >>, << >>)

RECURSIVE join(_, _)
\* sep.join(q)
join(sep, q) ==
    IF q = << >> THEN << >>
    ELSE IF Len(q) = 1 THEN q[1]
    ELSE q[1] \o sep \o join(sep, Tail(q))

\* a plausible slip in the loop body: '<ul>' is appended for every bulleted
\* line, whether or not a list is open
from_plain_text_step_reopen(st, prev_o, cur_o) ==
    IF cur_o.empty THEN
        IF st.in_list # 0 THEN [in_list |-> 0, res |-> Append(st.res, TagCloseUl)] ELSE st
    ELSE IF cur_o.bullet # None THEN
        [in_list |-> 1, res |-> st.res \o <<TagUl, TagLi, html_escape(cur_o.text)>>]
    ELSE IF st.in_list # 0 /\ cur_o.prefix # None THEN
        [st EXCEPT !.res = @ \o <<TagBr, html_escape(cur_o.text)>>]
    ELSE
        LET closed == IF st.in_list # 0 THEN Append(st.res, TagCloseUl) ELSE st.res
        IN  IF st.in_list # 0 \/ IsMissing(prev_o) \/ prev_o.empty
            THEN [in_list |-> 0, res |-> closed \o <<TagP, html_escape(cur_o.text)>>]
            ELSE [in_list |-> st.in_list, res |-> closed \o <<TagBr, html_escape(cur_o.text)>>]

\* a loop body whose plain line after a list gets '<br>' behind '</ul>'
from_plain_text_step_ulbr(st, prev_o, cur_o) ==
    IF cur_o.empty THEN
        IF st.in_list # 0 THEN [in_list |-> 0, res |-> Append(st.res, TagCloseUl)] ELSE st
    ELSE IF cur_o.bullet # None THEN
        LET opened == IF st.in_list = 0
                      THEN [in_list |-> 1, res |-> Append(st.res, TagUl)]
                      ELSE st
        IN  [opened EXCEPT !.res = @ \o <<TagLi, html_escape(cur_o.text)>>]
    ELSE IF st.in_list # 0 /\ cur_o.prefix # None THEN
        [st EXCEPT !.res = @ \o <<TagBr, html_escape(cur_o.text)>>]
    ELSE
        LET closed == IF st.in_list # 0 THEN Append(st.res, TagCloseUl) ELSE st.res
        IN  IF IsMissing(prev_o) \/ prev_o.empty
            THEN [in_list |-> 0, res |-> closed \o <<TagP, html_escape(cur_o.text)>>]
            ELSE [in_list |-> 0, res |-> closed \o <<TagBr, html_escape(cur_o.text)>>]

\* a loop body that drops the text of a continuation line
from_plain_text_step_notext(st, prev_o, cur_o) ==
    IF cur_o.empty THEN
        IF st.in_list # 0 THEN [in_list |-> 0, res |-> Append(st.res, TagCloseUl)] ELSE st
    ELSE IF cur_o.bullet # None THEN
        LET opened == IF st.in_list = 0
                      THEN [in_list |-> 1, res |-> Append(st.res, TagUl)]
                      ELSE st
        IN  [opened EXCEPT !.res = @ \o <<TagLi, html_escape(cur_o.text)>>]
    ELSE IF st.in_list # 0 /\ cur_o.prefix # None THEN
        [st EXCEPT !.res = @ \o <<TagBr>>]
    ELSE
        LET closed == IF st.in_list # 0 THEN Append(st.res, TagCloseUl) ELSE st.res
        IN  IF st.in_list # 0 \/ IsMissing(prev_o) \/ prev_o.empty
            THEN [in_list |-> 0, res |-> closed \o <<TagP, html_escape(cur_o.text)>>]
            ELSE [in_list |-> st.in_list, res |-> closed \o <<TagBr, html_escape(cur_o.text)>>]

\* a loop body that opens a list without '<ul>'
from_plain_text_step_noul(st, prev_o, cur_o) ==
    IF cur_o.empty THEN
        IF st.in_list # 0 THEN [in_list |-> 0, res |-> Append(st.res, TagCloseUl)] ELSE st
    ELSE IF cur_o.bullet # None THEN
        [in_list |-> 1, res |-> st.res \o <<TagLi, html_escape(cur_o.text)>>]
    ELSE IF st.in_list # 0 /\ cur_o.prefix # None THEN
        [st EXCEPT !.res = @ \o <<TagBr, html_escape(cur_o.text)>>]
    ELSE
        LET closed == IF st.in_list # 0 THEN Append(st.res, TagCloseUl) ELSE st.res
        IN  IF st.in_list # 0 \/ IsMissing(prev_o) \/ prev_o.empty
            THEN [in_list |-> 0, res |-> closed \o <<TagP, html_escape(cur_o.text)>>]
            ELSE [in_list |-> st.in_list, res |-> closed \o <<TagBr, html_escape(cur_o.text)>>]

\* a loop body that starts a paragraph for a continuation line
from_plain_text_step_contp(st, prev_o, cur_o) ==
    IF cur_o.empty THEN
        IF st.in_list # 0 THEN [in_list |-> 0, res |-> Append(st.res, TagCloseUl)] ELSE st
    ELSE IF cur_o.bullet # None THEN
        LET opened == IF st.in_list = 0
                      THEN [in_list |-> 1, res |-> Append(st.res, TagUl)]
                      ELSE st
        IN  [opened EXCEPT !.res = @ \o <<TagLi, html_escape(cur_o.text)>>]
    ELSE IF st.in_list # 0 /\ cur_o.prefix # None THEN
        [st EXCEPT !.res = @ \o <<TagP, html_escape(cur_o.text)>>]
    ELSE
        LET closed == IF st.in_list # 0 THEN Append(st.res, TagCloseUl) ELSE st.res
        IN  IF st.in_list # 0 \/ IsMissing(prev_o) \/ prev_o.empty
            THEN [in_list |-> 0, res |-> closed \o <<TagP, html_escape(cur_o.text)>>]
            ELSE [in_list |-> st.in_list, res |-> closed \o <<TagBr, html_escape(cur_o.text)>>]

\* a loop body whose empty line closes the list but leaves in_list set
from_plain_text_step_stays(st, prev_o, cur_o) ==
    IF cur_o.empty THEN
        IF st.in_list # 0 THEN [st EXCEPT !.res = Append(@, TagCloseUl)] ELSE st
    ELSE IF cur_o.bullet # None THEN
        LET opened == IF st.in_list = 0
                      THEN [in_list |-> 1, res |-> Append(st.res, TagUl)]
                      ELSE st
        IN  [opened EXCEPT !.res = @ \o <<TagLi, html_escape(cur_o.text)>>]
    ELSE IF st.in_list # 0 /\ cur_o.prefix # None THEN
        [st EXCEPT !.res = @ \o <<TagBr, html_escape(cur_o.text)>>]
    ELSE
        LET closed == IF st.in_list # 0 THEN Append(st.res, TagCloseUl) ELSE st.res
        IN  IF st.in_list # 0 \/ IsMissing(prev_o) \/ prev_o.empty
            THEN [in_list |-> 0, res |-> closed \o <<TagP, html_escape(cur_o.text)>>]
            ELSE [in_list |-> st.in_list, res |-> closed \o <<TagBr, html_escape(cur_o.text)>>]

\* a loop body that does not look at prev_o.empty: a plain line after an
\* empty line gets '<br>'
from_plain_text_step_br(st, prev_o, cur_o) ==
    IF cur_o.empty THEN
        IF st.in_list # 0 THEN [in_list |-> 0, res |-> Append(st.res, TagCloseUl)] ELSE st
    ELSE IF cur_o.bullet # None THEN
        LET opened == IF st.in_list = 0
                      THEN [in_list |-> 1, res |-> Append(st.res, TagUl)]
                      ELSE st
        IN  [opened EXCEPT !.res = @ \o <<TagLi, html_escape(cur_o.text)>>]
    ELSE IF st.in_list # 0 /\ cur_o.prefix # None THEN
        [st EXCEPT !.res = @ \o <<TagBr, html_escape(cur_o.text)>>]
    ELSE
        LET closed == IF st.in_list # 0 THEN Append(st.res, TagCloseUl) ELSE st.res
        IN  IF st.in_list # 0 \/ IsMissing(prev_o)
            THEN [in_list |-> 0, res |-> closed \o <<TagP, html_escape(cur_o.text)>>]
            ELSE [in_list |-> st.in_list, res |-> closed \o <<TagBr, html_escape(cur_o.text)>>]

\* a loop body without the branch for continuation lines: an indented line
\* without a bullet ends the list
from_plain_text_step_closing(st, prev_o, cur_o) ==
    IF cur_o.empty THEN
        IF st.in_list # 0 THEN [in_list |-> 0, res |-> Append(st.res, TagCloseUl)] ELSE st
    ELSE IF cur_o.bullet # None THEN
        LET opened == IF st.in_list = 0
                      THEN [in_list |-> 1, res |-> Append(st.res, TagUl)]
                      ELSE st
        IN  [opened EXCEPT !.res = @ \o <<TagLi, html_escape(cur_o.text)>>]
    ELSE
        LET closed == IF st.in_list # 0 THEN Append(st.res, TagCloseUl) ELSE st.res
        IN  IF st.in_list # 0 \/ IsMissing(prev_o) \/ prev_o.empty
            THEN [in_list |-> 0, res |-> closed \o <<TagP, html_escape(cur_o.text)>>]
            ELSE [in_list |-> st.in_list, res |-> closed \o <<TagBr, html_escape(cur_o.text)>>]

\* the body of 'for prev_o, o, next_o in sequence_slide(seq)', for one line
from_plain_text_step(st, prev_o, cur_o) ==
    IF cur_o.empty THEN
        IF st.in_list # 0 THEN [in_list |-> 0, res |-> Append(st.res, TagCloseUl)] ELSE st
    ELSE IF cur_o.bullet # None THEN
        LET opened == IF st.in_list = 0
                      THEN [in_list |-> 1, res |-> Append(st.res, TagUl)]
                      ELSE st
        IN  [opened EXCEPT !.res = @ \o <<TagLi, html_escape(cur_o.text)>>]
    ELSE IF st.in_list # 0 /\ cur_o.prefix # None THEN
        [st EXCEPT !.res = @ \o <<TagBr, html_escape(cur_o.text)>>]
    ELSE
        LET closed == IF st.in_list # 0 THEN Append(st.res, TagCloseUl) ELSE st.res
        IN  IF st.in_list # 0 \/ IsMissing(prev_o) \/ prev_o.empty
            THEN [in_list |-> 0, res |-> closed \o <<TagP, html_escape(cur_o.text)>>]
            ELSE [in_list |-> st.in_list, res |-> closed \o <<TagBr, html_escape(cur_o.text)>>]

\* seq: the LineInfo of every line of txt
LineInfos(str) == LET ls == splitlines(str) IN [k \in 1..Len(ls) |-> LineInfo(ls[k])]

\* the triples the for loop of from_plain_text runs over
Triples == sequence_slide(LineInfos(txt), Missing)

(***************************************************************************)
(* Inputs of from_plain_text: at most MaxLines lines, '\n' between them.   *)
(***************************************************************************)
MaxLines == 3

\* an empty and a blank line, plain lines, an indented line, bulleted lines
\* (one indented, with another bullet character) and a lone bullet character
FptLines == { << >>, <<" ">>, <<"a">>, <<"&">>, <<" ", ">">>,
              <<"*", " ", "<">>, <<" ", "-", " ", "a">>, <<"*">> }

RECURSIVE Texts(_)
Texts(n) ==
    IF n = 0 THEN { << >> }
    ELSE { << >> } \cup FptLines
         \cup { l \o <<"\n">> \o t : l \in FptLines, t \in Texts(n - 1) }

InitFPT == /\ txt \in Texts(MaxLines)
           /\ txt_type = "str"
           /\ joiner \in { << >>, <<" ">> }
           /\ idx = 0
           /\ in_list = 0
           /\ res = << >>
           /\ html = << >>
           /\ fpc = "loop"
           /\ EaIdle
           /\ LiIdle
           /\ XIdle

\* one turn of the for loop: the next line
FptLine == /\ fpc = "loop"
           /\ txt_type = "str"
           /\ idx < Len(Triples)
           /\ LET t == Triples[idx + 1]
                  n == from_plain_text_step([in_list |-> in_list, res |-> res], t[1], t[2])
              IN  /\ in_list' = n.in_list
                  /\ res' = n.res
           /\ idx' = idx + 1
           /\ UNCHANGED <<txt, txt_type, joiner, html, fpc, eaVars, liVars, xVars>>

\* 'return joiner.join(res)'
FptReturn == /\ fpc = "loop"
             /\ txt_type = "str"
             /\ idx = Len(Triples)
             /\ html' = join(joiner, res)
             /\ fpc' = "done"
             /\ UNCHANGED <<txt, txt_type, joiner, idx, in_list, res, eaVars, liVars, xVars>>

NextFPT == FptLine \/ FptReturn

SpecFPT == InitFPT /\ [][NextFPT]_vars

(***************************************************************************)
(* entity_aware and from_plain_text, called with arguments of other types  *)
(***************************************************************************)
\* the types of the arguments: a text, a list of one-character strings, an
\* integer, None
ArgTypes == {"str", "list", "int", "NoneType"}

\* the longest argument, in chunks and in lines
MaxArgLen == 2

\* 'txt.splitlines()' with a txt that has no such method: AttributeError
NoSplitlines == /\ fpc = "loop"
                /\ txt_type # "str"
                /\ fpc' = "raised"
                /\ UNCHANGED <<txt, txt_type, joiner, idx, in_list, res, html, eaVars, liVars, xVars>>

\* one call, of either function, with an argument of any of the types; a
\* value that is not a sequence is written << >>
InitTypes ==
    \/ /\ s_type \in ArgTypes
       /\ s \in (IF s_type \in Iterable THEN ChunkStrings(MaxArgLen) ELSE { << >> })
       /\ pos = 0
       /\ v = ScanInit.v
       /\ buf = ScanInit.buf
       /\ yielded = ScanInit.out
       /\ pc = "loop"
       /\ FptIdle
       /\ LiIdle
       /\ XIdle
    \/ /\ txt_type \in ArgTypes
       /\ txt \in (IF txt_type \in Iterable THEN Texts(MaxArgLen) ELSE { << >> })
       /\ joiner \in { << >>, <<" ">> }
       /\ idx = 0
       /\ in_list = 0
       /\ res = << >>
       /\ html = << >>
       /\ fpc = "loop"
       /\ EaIdle
       /\ LiIdle
       /\ XIdle

NextTypes == Step \/ Finish \/ NotIterable \/ FptLine \/ FptReturn \/ NoSplitlines

SpecTypes == InitTypes /\ [][NextTypes]_vars

(***************************************************************************)
(* Inputs of LineInfo: the lines of at most MaxLineLen characters.         *)
(***************************************************************************)
MaxLineLen == 4

LineAlphabet == {" ", "\t", "*", "-", "a"}

RECURSIVE LineStrings(_)
LineStrings(n) ==
    IF n = 0 THEN { << >> }
    ELSE { << >> } \cup { <<c>> \o t : c \in LineAlphabet, t \in LineStrings(n - 1) }

InitLineInfo == /\ line \in LineStrings(MaxLineLen)
                /\ o = [idle |-> TRUE]
                /\ lpc = "new"
                /\ EaIdle
                /\ FptIdle
                /\ XIdle

\* LineInfo(line)
Construct == /\ lpc = "new"
             /\ o' = LineInfo(line)
             /\ lpc' = "done"
             /\ UNCHANGED <<line, eaVars, fptVars, xVars>>

SpecLineInfo == InitLineInfo /\ [][Construct]_vars

(***************************************************************************)
(* entity_aware on 'X' + e + 'Y' for one well-formed reference e           *)
(***************************************************************************)
MaxBody == 2

RECURSIVE Bodies(_, _)
\* the non-empty strings of at most n characters over the set cs
Bodies(cs, n) ==
    IF n = 0 THEN { }
    ELSE { <<c>> : c \in cs } \cup { <<c>> \o b : c \in cs, b \in Bodies(cs, n - 1) }

\* well-formed references of the three forms, over a few characters each
NamedRefs   == { <<"&">> \o b \o <<";">> : b \in Bodies({"a", "Z", "1", "_"}, MaxBody) }
DecimalRefs == { <<"&", "#">> \o b \o <<";">> : b \in Bodies({"1", "9", "5"}, MaxBody + 1) }
HexRefs     == { <<"&", "#", "x">> \o b \o <<";">> : b \in Bodies({"1", "a", "F"}, MaxBody) }

InitEntity == /\ s \in { <<"X">> \o e \o <<"Y">> : e \in NamedRefs \cup DecimalRefs \cup HexRefs }
              /\ EaStart
              /\ FptIdle
              /\ LiIdle
              /\ XIdle

SpecEntity == InitEntity /\ [][Next]_vars

(***************************************************************************)
(* WriteProtected and ChangeProtected (src/visaplan/tools/classes.py)      *)
(***************************************************************************)
\* dict.__setitem__(d, key, val)
Put(d, key, val) == [k \in DOMAIN d \cup {key} |-> IF k = key THEN val ELSE d[k]]

\* dict.__delitem__(d, key), key in d
Del(d, key) == [k \in DOMAIN d \ {key} |-> d[k]]

WpKeys == {"a", "b"}

\* the values: a number and its Python type; 1 == 1.0 in Python
WpValues == [num : {1, 2}, type : {"int", "float"}]

WpDicts == UNION { [ks -> WpValues] : ks \in SUBSET WpKeys }

\* WriteProtected.__setitem__(key, val) on a dict with the items d.data and
\* the flag d.frozen: the items afterwards and the exception raised
WriteProtected_setitem(d, key, val) ==
    IF d.frozen THEN [data |-> d.data, raised |-> "ValueError"]
    ELSE IF key \in DOMAIN d.data THEN [data |-> d.data, raised |-> "ValueError"]
    ELSE [data |-> Put(d.data, key, val), raised |-> "none"]

\* a ChangeProtected.__setitem__ that compares the values only
ChangeProtected_setitem_untyped(d, key, val) ==
    IF key \in DOMAIN d.data THEN
        IF val.num # d.data[key].num THEN [data |-> d.data, raised |-> "ValueError"]
        ELSE [data |-> Put(d.data, key, val), raised |-> "none"]
    ELSE IF d.frozen THEN [data |-> d.data, raised |-> "ValueError"]
    ELSE [data |-> Put(d.data, key, val), raised |-> "none"]

\* ChangeProtected.__setitem__(key, val)
ChangeProtected_setitem(d, key, val) ==
    IF key \in DOMAIN d.data THEN
        IF val.num # d.data[key].num THEN [data |-> d.data, raised |-> "ValueError"]
        ELSE IF val.type # d.data[key].type THEN [data |-> d.data, raised |-> "ValueError"]
        ELSE [data |-> Put(d.data, key, val), raised |-> "none"]
    ELSE IF d.frozen THEN [data |-> d.data, raised |-> "ValueError"]
    ELSE [data |-> Put(d.data, key, val), raised |-> "none"]

\* WriteProtected(dic) or ChangeProtected(dic): dict.__init__, not frozen
InitWp == /\ wp_class \in {"WriteProtected", "ChangeProtected"}
          /\ wp_data \in WpDicts
          /\ wp_frozen = FALSE
          /\ wp_call = [op |-> "new"]
          /\ EaIdle /\ FptIdle /\ LiIdle /\ SlIdle /\ UsIdle /\ SodIdle /\ LockIdle

\* d[key] = val
WpSetItem ==
    /\ wp_class # "idle"
    /\ \E key \in WpKeys, val \in WpValues :
          LET d == [data |-> wp_data, frozen |-> wp_frozen]
              r == IF wp_class = "ChangeProtected" THEN ChangeProtected_setitem(d, key, val)
                   ELSE WriteProtected_setitem(d, key, val)
          IN  /\ wp_data' = r.data
              /\ wp_call' = [op |-> "setitem", key |-> key, val |-> val, raised |-> r.raised]
    /\ UNCHANGED <<wp_class, wp_frozen, eaVars, fptVars, liVars, slVars, usVars, sodVars, lockVars>>

\* del d[key], which dict provides: KeyError if the key is missing
WpDelItem ==
    /\ wp_class # "idle"
    /\ \E key \in WpKeys :
          IF key \in DOMAIN wp_data
          THEN /\ wp_data' = Del(wp_data, key)
               /\ wp_call' = [op |-> "delitem", key |-> key, raised |-> "none"]
          ELSE /\ wp_data' = wp_data
               /\ wp_call' = [op |-> "delitem", key |-> key, raised |-> "KeyError"]
    /\ UNCHANGED <<wp_class, wp_frozen, eaVars, fptVars, liVars, slVars, usVars, sodVars, lockVars>>

\* d.freeze()
WpFreeze ==
    /\ wp_class # "idle"
    /\ wp_frozen' = TRUE
    /\ wp_call' = [op |-> "freeze"]
    /\ UNCHANGED <<wp_class, wp_data, eaVars, fptVars, liVars, slVars, usVars, sodVars, lockVars>>

NextWp == WpSetItem \/ WpDelItem \/ WpFreeze

SpecWp == InitWp /\ [][NextWp]_vars

(***************************************************************************)
(* StackOfDicts (src/visaplan/tools/classes.py), with its default options: *)
(* the member dicts are frozen WriteProtected copies of the dicts given.   *)
(***************************************************************************)
\* the most member dicts on a stack
MaxHeight == 2

SodKeys == {"a", "b"}

\* the dicts given to the constructor and to push
SodDicts == { EmptyDict, [a |-> 1], [b |-> 1], [a |-> 2, b |-> 2] }

\* list(dic.keys()): the keys in the order the dict has them, which is any
KeyOrders(dic) ==
    { q \in [1..Cardinality(DOMAIN dic) -> DOMAIN dic] : \A i, j \in DOMAIN q : q[i] = q[j] => i = j }

\* the object: its fields
SodState == [stack |-> sod_stack, key_lists |-> sod_key_lists, checked |-> sod_checked,
             allowed_keys |-> sod_allowed_keys]

RECURSIVE found_keys(_)
\* StackOfDicts.__init__: the keys of all the dicts given
found_keys(args) ==
    IF args = << >> THEN {} ELSE DOMAIN Head(args) \cup found_keys(Tail(args))

\* StackOfDicts(*args, checked=checked), the key lists being keys
StackOfDicts_new(args, keys, checked) ==
    LET maybe_check == checked # "False"
        found       == IF maybe_check THEN found_keys(args) ELSE {}
    IN  [stack        |-> args,
         key_lists    |-> keys,
         checked      |-> maybe_check /\ found # {},
         allowed_keys |-> found]

\* sod.push(dic), keys being list(dic.keys())
StackOfDicts_push(st, dic, keys) ==
    IF st.checked /\ ~(DOMAIN dic \subseteq st.allowed_keys)
    THEN [st |-> st, raised |-> "ValueError"]
    ELSE [st |-> [st EXCEPT !.key_lists = IF st.checked THEN @ ELSE Append(@, keys),
                            !.stack = Append(@, dic)],
          raised |-> "none"]

\* list.pop() and 'del list[-1]'
ButLast(q) == SubSeq(q, 1, Len(q) - 1)

\* sod.pop()
StackOfDicts_pop(st) ==
    IF ~st.checked /\ st.key_lists = << >> THEN [st |-> st, raised |-> "IndexError"]
    ELSE LET st1 == IF st.checked THEN st ELSE [st EXCEPT !.key_lists = ButLast(@)]
         IN  IF st1.stack = << >> THEN [st |-> st1, raised |-> "IndexError"]
             ELSE [st |-> [st1 EXCEPT !.stack = ButLast(@)], raised |-> "none",
                   value |-> Last(st1.stack)]

\* sod.height()
StackOfDicts_height(st) == Len(st.stack)

RECURSIVE getitem_oldest(_, _, _)
\* a lookup that asks the member dicts from the bottom of the stack upwards
getitem_oldest(stack, i, key) ==
    IF stack = << >> THEN [raised |-> "KeyError"]
    ELSE IF key \in DOMAIN Head(stack) THEN [raised |-> "none", value |-> Head(stack)[key]]
    ELSE getitem_oldest(Tail(stack), i - 1, key)

RECURSIVE getitem_reversed(_, _, _)
\* 'for dic in reversed(self._stack)' of __getitem__, from member i downwards
getitem_reversed(stack, i, key) ==
    IF i = 0 THEN [raised |-> "KeyError"]
    ELSE IF key \in DOMAIN stack[i] THEN [raised |-> "none", value |-> stack[i][key]]
    ELSE getitem_reversed(stack, i - 1, key)

\* sod[key]
StackOfDicts_getitem(st, key) == getitem_reversed(st.stack, Len(st.stack), key)

RECURSIVE cleanup_key_lists(_, _)
\* _cleanup_key_lists: every key list without the keys that are in all_keys
\* or in a key list before it
cleanup_key_lists(key_lists, all_keys) ==
    IF key_lists = << >> THEN << >>
    ELSE LET liz == SelectSeq(Head(key_lists), LAMBDA key : key \notin all_keys)
         IN  <<liz>> \o cleanup_key_lists(Tail(key_lists),
                                          all_keys \cup { liz[k] : k \in 1..Len(liz) })

\* list(sod): the object afterwards and the keys yielded
StackOfDicts_iter(st) ==
    LET cleaned == cleanup_key_lists(st.key_lists, {})
    IN  [st |-> [st EXCEPT !.key_lists = cleaned], value |-> Concat(cleaned)]

\* len(sod): the object afterwards and the number returned
StackOfDicts_len(st) ==
    LET cleaned == cleanup_key_lists(st.key_lists, {})
    IN  [st |-> [st EXCEPT !.key_lists = cleaned], value |-> Len(Concat(cleaned))]

\* list(sod.items()) of the Mapping mixin: (key, sod[key]) for every key of
\* the iteration, KeyError if one of the lookups fails
StackOfDicts_items(st) ==
    LET it   == StackOfDicts_iter(st)
        keys == it.value
    IN  IF \E k \in 1..Len(keys) : StackOfDicts_getitem(st, keys[k]).raised # "none"
        THEN [st |-> it.st, raised |-> "KeyError"]
        ELSE [st |-> it.st, raised |-> "none",
              value |-> [k \in 1..Len(keys) |-> <<keys[k], StackOfDicts_getitem(st, keys[k]).value>>]]

RECURSIVE SodArgs(_)
\* the positional arguments of the constructor: up to n dicts
SodArgs(n) ==
    IF n = 0 THEN { << >> }
    ELSE { << >> } \cup { <<d>> \o q : d \in SodDicts, q \in SodArgs(n - 1) }

\* the key lists a sequence of dicts can give
KeyLists(args) ==
    { q \in [1..Len(args) -> UNION { KeyOrders(d) : d \in SodDicts }] :
          \A k \in 1..Len(args) : q[k] \in KeyOrders(args[k]) }

SodSet(st) == /\ sod_stack' = st.stack
              /\ sod_key_lists' = st.key_lists
              /\ sod_checked' = st.checked
              /\ sod_allowed_keys' = st.allowed_keys

SodOthers == <<sodpc, eaVars, fptVars, liVars, slVars, usVars, wpVars, lockVars>>

InitSod ==
    /\ \E args \in SodArgs(MaxHeight), checked \in {"None", "True", "False"} :
          \E keys \in KeyLists(args) :
              LET st == StackOfDicts_new(args, keys, checked) IN
              /\ sod_stack = st.stack
              /\ sod_key_lists = st.key_lists
              /\ sod_checked = st.checked
              /\ sod_allowed_keys = st.allowed_keys
    /\ sod_ret = [op |-> "new"]
    /\ sodpc = "live"
    /\ EaIdle /\ FptIdle /\ LiIdle /\ SlIdle /\ UsIdle /\ WpIdle /\ LockIdle

\* sod.push(dic)
SodPush ==
    /\ sodpc = "live"
    /\ Len(sod_stack) < MaxHeight
    /\ \E dic \in SodDicts : \E keys \in KeyOrders(dic) :
          LET r == StackOfDicts_push(SodState, dic, keys) IN
          /\ SodSet(r.st)
          /\ sod_ret' = [op |-> "push", raised |-> r.raised]
    /\ UNCHANGED SodOthers

\* sod.pop()
SodPop ==
    /\ sodpc = "live"
    /\ LET r == StackOfDicts_pop(SodState) IN
          /\ SodSet(r.st)
          /\ sod_ret' = IF r.raised = "none"
                         THEN [op |-> "pop", raised |-> r.raised, value |-> r.value]
                         ELSE [op |-> "pop", raised |-> r.raised]
    /\ UNCHANGED SodOthers

\* sod[key]
SodGetItem ==
    /\ sodpc = "live"
    /\ \E key \in SodKeys :
          sod_ret' = [op |-> "getitem", key |-> key, result |-> StackOfDicts_getitem(SodState, key)]
    /\ UNCHANGED <<sod_stack, sod_key_lists, sod_checked, sod_allowed_keys, SodOthers>>

\* list(sod)
SodIter ==
    /\ sodpc = "live"
    /\ LET r == StackOfDicts_iter(SodState) IN
          /\ SodSet(r.st)
          /\ sod_ret' = [op |-> "iter", value |-> r.value]
    /\ UNCHANGED SodOthers

\* len(sod)
SodLen ==
    /\ sodpc = "live"
    /\ LET r == StackOfDicts_len(SodState) IN
          /\ SodSet(r.st)
          /\ sod_ret' = [op |-> "len", value |-> r.value]
    /\ UNCHANGED SodOthers

\* list(sod.items())
SodItems ==
    /\ sodpc = "live"
    /\ LET r == StackOfDicts_items(SodState) IN
          /\ SodSet(r.st)
          /\ sod_ret' = IF r.raised = "none"
                         THEN [op |-> "items", raised |-> r.raised, value |-> r.value]
                         ELSE [op |-> "items", raised |-> r.raised]
    /\ UNCHANGED SodOthers

\* sod.height()
SodHeight ==
    /\ sodpc = "live"
    /\ sod_ret' = [op |-> "height", value |-> StackOfDicts_height(SodState)]
    /\ UNCHANGED <<sod_stack, sod_key_lists, sod_checked, sod_allowed_keys, SodOthers>>

NextSod == SodPush \/ SodPop \/ SodGetItem \/ SodIter \/ SodLen \/ SodItems \/ SodHeight

SpecSod == InitSod /\ [][NextSod]_vars

(***************************************************************************)
(* UniqueStack (src/visaplan/tools/classes.py)                             *)
(***************************************************************************)
\* list.index(val): the first position of val, 0 for ValueError
index(q, val) ==
    IF \E k \in 1..Len(q) : q[k] = val
    THEN CHOOSE k \in 1..Len(q) : q[k] = val /\ \A j \in 1..(k - 1) : q[j] # val
    ELSE 0

\* UniqueStack.append(val): the list afterwards
UniqueStack_append(q, val) ==
    LET oldidx == index(q, val)
        kept   == IF oldidx = 0 THEN q
                  ELSE SubSeq(q, 1, oldidx - 1) \o SubSeq(q, oldidx + 1, Len(q))
    IN  Append(kept, val)

RECURSIVE UniqueStack_extend(_, _)
\* UniqueStack.extend(seq): the list afterwards
UniqueStack_extend(q, seq) ==
    IF seq = << >> THEN q
    ELSE UniqueStack_extend(UniqueStack_append(q, Head(seq)), Tail(seq))

\* the longest sequence a UniqueStack is constructed from or extended by
MaxUstLen == 3

UstValues == {"a", "b", "c", "d"}

RECURSIVE UstSeqs(_)
UstSeqs(n) ==
    IF n = 0 THEN { << >> }
    ELSE { << >> } \cup { <<x>> \o q : x \in UstValues, q \in UstSeqs(n - 1) }

\* UniqueStack(seq): list.__init__, the class has no constructor of its own
InitUst == /\ ust \in UstSeqs(MaxUstLen)
           /\ ustpc = "live"
           /\ EaIdle /\ FptIdle /\ LiIdle /\ SlIdle /\ WpIdle /\ SodIdle /\ LockIdle

\* ust.append(val)
UstAppend == /\ ustpc = "live"
             /\ \E val \in UstValues : ust' = UniqueStack_append(ust, val)
             /\ UNCHANGED <<ustpc, eaVars, fptVars, liVars, slVars, wpVars, sodVars, lockVars>>

\* ust.extend(seq)
UstExtend == /\ ustpc = "live"
             /\ \E seq \in UstSeqs(MaxUstLen) : ust' = UniqueStack_extend(ust, seq)
             /\ UNCHANGED <<ustpc, eaVars, fptVars, liVars, slVars, wpVars, sodVars, lockVars>>

NextUst == UstAppend \/ UstExtend

SpecUst == InitUst /\ [][NextUst]_vars

(***************************************************************************)
(* ConvenientLock (src/visaplan/tools/lock.py): several processes use      *)
(* 'with ConvenientLock(name, ...)' on one file name, all with the same    *)
(* options.  LockFile is zc.lockfile.LockFile: it opens the file, creating *)
(* it if there is none, and takes an exclusive lock on it without          *)
(* blocking, raising LockError if another process holds one; close()       *)
(* gives the lock up and closes the file.  The lock belongs to the file    *)
(* (the inode), not to its name.                                           *)
(***************************************************************************)
\* the most attempts asked for
MaxTries == 2

\* the processes
Procs == {"p1", "p2"}

\* argument values: the type, the number, and whether a float is NaN
IntArg(k)  == [type |-> "int", num |-> k, nan |-> FALSE]
NoneArg    == [type |-> "NoneType", num |-> 0, nan |-> FALSE]
StrArg     == [type |-> "str", num |-> 0, nan |-> FALSE]
FloatArg(k) == [type |-> "float", num |-> k, nan |-> FALSE]
NaNArg     == [type |-> "float", num |-> 0, nan |-> TRUE]

TriesArgs   == { IntArg(k) : k \in 0..MaxTries } \cup { FloatArg(2) }
DelayArgs   == { NoneArg, StrArg, IntArg(0 - 1), IntArg(0), IntArg(1), FloatArg(1), NaNArg }
VerboseArgs == { NoneArg, IntArg(0), IntArg(1) }
\* no logger, the name of a logger, a logging.Logger
LoggerArgs  == { "None", "str", "Logger" }

\* check_lockfile_options(name, tries=, delay=, autodelete=, verbose=,
\* logger=): the checks of tries, delay, verbose and logger; the file name
\* is a plain name in the working directory
check_lockfile_options(tries, delay, autodelete, verbose, logger) ==
    IF tries.type # "int" THEN [raised |-> "ValueError"]
    ELSE IF tries.num < 1 THEN [raised |-> "ValueError"]
    ELSE IF tries.num > 1 /\ delay.type = "NoneType" THEN [raised |-> "TypeError"]
    ELSE IF tries.num > 1 /\ delay.type \notin {"int", "float"} THEN [raised |-> "ValueError"]
    \* 'delay <= 0' is False for a NaN
    ELSE IF tries.num > 1 /\ ~delay.nan /\ delay.num <= 0 THEN [raised |-> "ValueError"]
    ELSE IF verbose.type \notin {"NoneType", "bool", "int"} THEN [raised |-> "TypeError"]
    ELSE LET v1 == IF verbose.type = "NoneType" THEN (IF logger # "None" THEN 1 ELSE 0)
                   ELSE verbose.num
         IN  IF v1 # 0 /\ logger = "None" THEN [raised |-> "TypeError"]
             ELSE [raised     |-> "none",
                   tries      |-> tries.num,
                   delay      |-> IF tries.num > 1 THEN delay ELSE NoneArg,
                   autodelete |-> autodelete,
                   logger     |-> logger,
                   verbose    |-> v1]

\* the property ConvenientLock.logger: for the name of a logger the
\* assignment to '_self.__logger' raises NameError
ConvenientLock_logger(opts) ==
    IF opts.logger = "str" THEN [raised |-> "NameError"] ELSE [raised |-> "none"]

\* a process outside of any 'with' statement
ProcOut == [pc |-> "out", exc |-> "none", fp |-> 0, locked |-> FALSE,
            i |-> 0, attempts |-> 0, fails |-> 0, slept |-> << >>]

\* the 'except LockError' branch of acquire, for the process record pr
acquire_except(opts, pr) ==
    IF pr.i < opts.tries THEN
        IF opts.verbose # 0 /\ ConvenientLock_logger(opts).raised # "none"
        THEN [pr EXCEPT !.i = @ + 1, !.pc = "acquire_raised",
                        !.exc = ConvenientLock_logger(opts).raised]
        \* time.sleep raises ValueError for a NaN
        ELSE IF opts.delay.nan
        THEN [pr EXCEPT !.i = @ + 1, !.slept = Append(@, opts.delay),
                        !.pc = "acquire_raised", !.exc = "ValueError"]
        ELSE [pr EXCEPT !.i = @ + 1, !.slept = Append(@, opts.delay), !.pc = "sleep"]
    ELSE IF opts.verbose # 0 /\ ConvenientLock_logger(opts).raised # "none"
    THEN [pr EXCEPT !.pc = "acquire_raised", !.exc = ConvenientLock_logger(opts).raised]
    ELSE [pr EXCEPT !.pc = "acquire_raised", !.exc = "LockError"]

\* the inodes in use: the one of the lock file and those of the open files
InodesInUse == {lk_path} \cup { lk_proc[q].fp : q \in Procs }

\* the inode a new file gets
NewInode == CHOOSE n \in 1..(Cardinality(Procs) + 1) :
                /\ n \notin InodesInUse
                /\ \A m \in 1..(n - 1) : m \in InodesInUse

\* another process holds the lock on the file p has opened
LockedByOther(p) ==
    \E q \in Procs \ {p} : lk_proc[q].locked /\ lk_proc[q].fp = lk_proc[p].fp

LockOthers == <<eaVars, fptVars, liVars, slVars, clsVars>>

\* ConvenientLock(name, **kwargs) in every process
InitLock ==
    /\ \E tries \in TriesArgs, delay \in DelayArgs, autodelete \in BOOLEAN,
          verbose \in VerboseArgs, logger \in LoggerArgs :
          lk_opts = check_lockfile_options(tries, delay, autodelete, verbose, logger)
    /\ lk_path = 0
    /\ lk_proc = [p \in Procs |-> ProcOut]
    /\ EaIdle /\ FptIdle /\ LiIdle /\ SlIdle /\ ClsIdle

\* __enter__: a new ConvenientLock is not active, acquire() starts with i = 1
LockEnter ==
    /\ lk_opts.raised = "none"
    /\ \E p \in Procs :
          /\ lk_proc[p].pc \in {"out", "acquire_raised", "release_raised"}
          /\ lk_proc' = [lk_proc EXCEPT ![p] = [ProcOut EXCEPT !.pc = "open", !.i = 1]]
    /\ UNCHANGED <<lk_opts, lk_path, LockOthers>>

\* LockFile(self.filename), first half: the file is opened, and created if
\* there is none
LockOpen ==
    /\ \E p \in Procs :
          /\ lk_proc[p].pc = "open"
          /\ LET ino == IF lk_path # 0 THEN lk_path ELSE NewInode IN
                /\ lk_path' = ino
                /\ lk_proc' = [lk_proc EXCEPT ![p].fp = ino, ![p].attempts = @ + 1,
                                              ![p].pc = "flock"]
    /\ UNCHANGED <<lk_opts, LockOthers>>

\* LockFile(self.filename), second half: the lock is taken, or LockError is
\* raised, the file closed and the except branch of acquire run
LockFlock ==
    /\ \E p \in Procs :
          /\ lk_proc[p].pc = "flock"
          /\ lk_proc' = [lk_proc EXCEPT ![p] =
                IF LockedByOther(p)
                THEN acquire_except(lk_opts, [@ EXCEPT !.fp = 0, !.fails = @ + 1])
                ELSE [@ EXCEPT !.locked = TRUE, !.pc = "inside"]]
    /\ UNCHANGED <<lk_opts, lk_path, LockOthers>>

\* sleep(delay) returns, the loop of acquire goes on
LockSleep ==
    /\ \E p \in Procs :
          /\ lk_proc[p].pc = "sleep"
          /\ lk_proc' = [lk_proc EXCEPT ![p].pc = "open"]
    /\ UNCHANGED <<lk_opts, lk_path, LockOthers>>

\* __exit__, release(), first half: the lock file is active and is closed
LockClose ==
    /\ \E p \in Procs :
          /\ lk_proc[p].pc = "inside"
          /\ lk_proc' = [lk_proc EXCEPT ![p].locked = FALSE, ![p].fp = 0,
                                        ![p].pc = IF lk_opts.autodelete THEN "unlink" ELSE "out"]
    /\ UNCHANGED <<lk_opts, lk_path, LockOthers>>

\* release(), second half: unlink(filename).  The name is removed, or
\* OSError is raised and ignored: there is no such file, or the system does
\* not remove a file that another process has open.
LockUnlink ==
    /\ \E p \in Procs :
          /\ lk_proc[p].pc = "unlink"
          /\ \E removed \in BOOLEAN :
                /\ removed => lk_path # 0
                /\ ~removed => \/ lk_path = 0
                               \/ \E q \in Procs \ {p} : lk_proc[q].fp = lk_path
                /\ lk_path' = IF removed THEN 0 ELSE lk_path
                /\ lk_proc' = [lk_proc EXCEPT ![p] =
                      IF ~removed /\ lk_opts.verbose # 0
                                  /\ ConvenientLock_logger(lk_opts).raised # "none"
                      THEN [@ EXCEPT !.pc = "release_raised",
                                     !.exc = ConvenientLock_logger(lk_opts).raised]
                      ELSE [@ EXCEPT !.pc = "out"]]
    /\ UNCHANGED <<lk_opts, LockOthers>>

NextLock == LockEnter \/ LockOpen \/ LockFlock \/ LockSleep \/ LockClose \/ LockUnlink

SpecLock == InitLock /\ [][NextLock]_vars

(***************************************************************************)
(* Claims about entity_aware                                               *)
(***************************************************************************)
\* t is a well-formed named / decimal / hexadecimal character reference
IsNamedRef(t) ==
    /\ Len(t) >= 3 /\ t[1] = "&" /\ t[Len(t)] = ";"
    /\ \A k \in 2..(Len(t) - 1) : t[k] \in ENTITY_CHARS(<<"&">>)
IsDecimalRef(t) ==
    /\ Len(t) >= 4 /\ t[1] = "&" /\ t[2] = "#" /\ t[Len(t)] = ";"
    /\ \A k \in 3..(Len(t) - 1) : t[k] \in ENTITY_CHARS(<<"&", "#">>)
IsHexRef(t) ==
    /\ Len(t) >= 5 /\ t[1] = "&" /\ t[2] = "#" /\ t[3] = "x" /\ t[Len(t)] = ";"
    /\ \A k \in 4..(Len(t) - 1) : t[k] \in ENTITY_CHARS(<<"&", "#", "x">>)
IsRef(t) == IsNamedRef(t) \/ IsDecimalRef(t) \/ IsHexRef(t)

\* the unread input begins with a decimal / named reference: its length, else 0
DecimalAhead == IF \E n \in 1..Len(Rest) : IsDecimalRef(SubSeq(Rest, 1, n))
                THEN CHOOSE n \in 1..Len(Rest) : IsDecimalRef(SubSeq(Rest, 1, n))
                ELSE 0
NamedAhead   == IF \E n \in 1..Len(Rest) : IsNamedRef(SubSeq(Rest, 1, n))
                THEN CHOOSE n \in 1..Len(Rest) : IsNamedRef(SubSeq(Rest, 1, n))
                ELSE 0

\* the loop has just put '&#195;' on the shelf
JustShelved == pc = "loop" /\ v.onshelf # None /\ v.in_entity = 0

\* C1: for every string s, the atoms yielded by entity_aware(s), concatenated
\* in order, are exactly s (nothing dropped, duplicated or reordered).
C1_RoundTrip == pc = "done" => Concat(yielded) = s

\* C3: for a well-formed named, decimal or hexadecimal reference e,
\* entity_aware('X' + e + 'Y') yields exactly the three atoms 'X', e, 'Y'.
C3_EntityAtomicity ==
    pc = "done" => yielded = << <<"X">>, SubSeq(s, 2, Len(s) - 1), <<"Y">> >>

\* C4: every well-formed reference occurring anywhere in the input is among
\* the atoms yielded: as an atom of its own, or, for '&#195;' and a numeric
\* reference that directly follows it in the input, as the one atom made of
\* the two.
C4_EveryRefOneAtom ==
    pc = "done" =>
        \A p \in 1..Len(s) : \A q \in p..Len(s) :
            LET e == SubSeq(s, p, q) IN
            IsRef(e) =>
                \E k \in 1..Len(yielded) :
                    \/ yielded[k] = e
                    \/ /\ yielded[k] = Shelf195 \o e
                       /\ ~IsNamedRef(e)
                       /\ p > Len(Shelf195)
                       /\ SubSeq(s, p - Len(Shelf195), p - 1) = Shelf195
                    \/ /\ e = Shelf195
                       /\ \E r \in (q + 1)..Len(s) :
                            /\ ~IsNamedRef(SubSeq(s, q + 1, r))
                            /\ IsRef(SubSeq(s, q + 1, r))
                            /\ yielded[k] = e \o SubSeq(s, q + 1, r)

\* C5, as stated: whenever the loop has completed the entity '&#195;' (shelved
\* it, or merged it into the atom yielded last) and a complete decimal
\* reference follows at once, the two come out as one atom, their concatenation.
C5_MergeAfterAnyCompleted195 ==
    ( /\ pc = "loop"
      /\ pos >= Len(Shelf195)
      /\ SubSeq(s, pos - Len(Shelf195) + 1, pos) = Shelf195
      /\ \/ v.onshelf = Shelf195
         \/ /\ yielded # << >>
            /\ Len(Last(yielded)) > Len(Shelf195)
            /\ SubSeq(Last(yielded), Len(Last(yielded)) - Len(Shelf195) + 1,
                      Len(Last(yielded))) = Shelf195
      /\ DecimalAhead > 0 )
    => LET d == SubSeq(Rest, 1, DecimalAhead)
           r == scan_from(Cur, d)
       IN  r.out # << >> /\ Last(r.out) = Shelf195 \o d

\* C5, amended: whenever the loop has put a completed '&#195;' on the shelf
\* (it was completed while the shelf was empty) and a complete decimal
\* reference follows at once, reading that reference yields exactly one more
\* atom, the concatenation of the two, and empties the shelf.
C5_MergeAfterShelved195 ==
    (JustShelved /\ DecimalAhead > 0)
    => LET d == SubSeq(Rest, 1, DecimalAhead)
           r == scan_from(Cur, d)
       IN  /\ r.out = Append(yielded, Shelf195 \o d)
           /\ r.v.onshelf = None
           /\ ~r.raised

C5_Witness ==
    /\ pc = "done"
    /\ \E k \in 1..Len(yielded) : yielded[k] = Shelf195 \o <<"&", "#", "1", ";">>
    /\ Concat(yielded) = s

\* C6: when '&#195;' is on the shelf and an ordinary character, a bare '&',
\* a named reference or the end of the string follows, the next atom yielded
\* is '&#195;' alone, and the atom after it is what followed (the character,
\* the '&', the named reference).
C6_ShelfFlushedAlone ==
    (JustShelved /\ DecimalAhead = 0)
    => LET a == atoms_from(Cur, Rest)
           n == Len(yielded)
       IN  /\ Len(a) > n
           /\ a[n + 1] = Shelf195
           /\ Rest # << >> =>
                /\ Len(a) > n + 1
                /\ a[n + 2] = IF NamedAhead > 0 THEN SubSeq(Rest, 1, NamedAhead)
                              ELSE <<Rest[1]>>

\* the unread input begins with a malformed or incomplete entity-like
\* sequence: the length of '&', an optional '#', and the body characters that
\* follow, when no ';' completes a non-empty body; else 0
MalformedAhead ==
    IF Rest = << >> \/ Rest[1] # "&" THEN 0
    ELSE LET numeric == Len(Rest) >= 2 /\ Rest[2] = "#"
             first   == IF numeric THEN 3 ELSE 2
             cs      == IF numeric THEN ENTITY_CHARS(<<"&", "#">>) ELSE ENTITY_CHARS(<<"&">>)
             stop    == CHOOSE e \in (first - 1)..Len(Rest) :
                            /\ \A k \in first..e : Rest[k] \in cs
                            /\ e = Len(Rest) \/ Rest[e + 1] \notin cs
         IN  IF stop >= first /\ stop < Len(Rest) /\ Rest[stop + 1] = ";" THEN 0 ELSE stop

\* C7: a malformed or incomplete entity-like sequence comes out as its
\* characters, one atom each, the '&' included: reading it adds exactly its
\* characters to what entity_aware yields in all.
C7_MalformedDecomposed ==
    (pc = "loop" /\ MalformedAhead > 0)
    => LET m == SubSeq(Rest, 1, MalformedAhead)
       IN  atoms_from(Cur, m) = atoms_from(Cur, << >>) \o Chars(m)

\* C9: entity_aware never raises: no assert fails, and whenever buf is not
\* empty, entity_prefix and in_entity are set.
C9_AssertsHold ==
    /\ pc # "raised"
    /\ buf # << >> => (v.entity_prefix # None /\ v.in_entity # 0)

C9_Witness == pc = "loop" /\ buf # << >> /\ v.onshelf # None /\ pos < Len(s)

(***************************************************************************)
(* Claims about from_plain_text and LineInfo                               *)
(***************************************************************************)
\* how often the token tag occurs in the token list q
Count(q, tag) == Cardinality({ k \in 1..Len(q) : q[k] = tag })

StructTags == {TagP, TagUl, TagCloseUl, TagLi, TagBr}

EscapeCodes == { escape_char(c) : c \in {"&", "<", ">", "\"", "'"} }

\* tok holds no '<' and no '>', and '&' only as the start of an escaped form
EscapedOnly(tok) ==
    \A k \in 1..Len(tok) :
        /\ tok[k] \notin {"<", ">"}
        /\ tok[k] = "&" =>
              \E e \in EscapeCodes :
                  /\ k + Len(e) - 1 <= Len(tok)
                  /\ SubSeq(tok, k, k + Len(e) - 1) = e

\* how often the string part occurs in the string str
Occurrences(str, part) ==
    Cardinality({ k \in 1..(Len(str) - Len(part) + 1) :
                      SubSeq(str, k, k + Len(part) - 1) = part })

\* the text tokens of res, and the texts of the non-empty lines read so far
TextTokens == SelectSeq(res, LAMBDA tok : tok \notin StructTags)
TextsRead  == LET os == SubSeq(LineInfos(txt), 1, idx)
              IN  SelectSeq([k \in 1..Len(os) |-> os[k].text], LAMBDA x : x # << >>)

\* C8: in the output every '&', '<' and '>' of a line's text is escaped,
\* for paragraph lines, list items and continuation lines alike: each token
\* is either one of the literal tags or holds '<', '>' and '&' in escaped
\* form only; a text token directly follows a literal '<p>', '<li>' or
\* '<br>'; and there is one text token per non-empty line, holding '&amp;',
\* '&lt;' and '&gt;' as often as that line's text holds '&', '<' and '>'.
C8_TextEscapedTagsLiteral ==
    /\ \A k \in 1..Len(res) :
          \/ res[k] \in StructTags
          \/ /\ EscapedOnly(res[k])
             /\ k > 1
             /\ res[k - 1] \in {TagP, TagLi, TagBr}
    /\ Len(TextTokens) = Len(TextsRead)
    /\ \A k \in 1..Len(TextTokens) : \A c \in {"&", "<", ">"} :
          Occurrences(TextTokens[k], escape_char(c)) = Occurrences(TextsRead[k], <<c>>)

C8_Witness ==
    /\ fpc = "done"
    /\ res = << TagP, escape_char("&"), TagUl, TagLi, escape_char("<"),
                TagBr, escape_char(">") >>
    /\ joiner = <<" ">>

\* C10: a LineInfo has a bullet only if the line, after its leading
\* whitespace, starts with exactly one bullet character, followed at once by
\* whitespace and then by text; a line that starts with two or more bullet
\* characters in a row has no bullet and keeps all its characters in text.
C10_ExactlyOneBulletChar ==
    lpc = "done" =>
        LET r == rstrip(lstrip(line)) IN
        /\ o.bullet # None =>
              /\ Len(r) >= 3
              /\ r[1] \in BULLET_CHARS
              /\ r[2] \in whitespace
              /\ o.bullet = <<r[1]>>
        /\ (Len(r) >= 2 /\ r[1] \in BULLET_CHARS /\ r[2] \in BULLET_CHARS) =>
              /\ o.bullet = None
              /\ o.text = r

\* C11: bullet is set only when the bullet character is followed at once by
\* whitespace and a non-empty remainder, so a bullet implies a non-empty text
\* and empty false; a bullet character with nothing or only whitespace after
\* it, or directly followed by a non-whitespace character, gives bullet None
\* and a text that begins with that bullet character.
C11_BulletOnlyBeforeText ==
    lpc = "done" =>
        LET r == rstrip(lstrip(line)) IN
        /\ o.bullet # None =>
              /\ o.text # << >>
              /\ o.empty = FALSE
              /\ \E k \in 1..(Len(r) - 2) :
                    /\ <<r[k]>> = o.bullet
                    /\ r[k + 1] \in whitespace
                    /\ \A j \in 1..k : r[j] \in BULLET_CHARS
        /\ (r # << >> /\ r[1] \in BULLET_CHARS /\ (Len(r) = 1 \/ r[2] \notin whitespace)) =>
              /\ o.bullet = None
              /\ o.text # << >>
              /\ o.text[1] = r[1]

\* the leading whitespace of a line that has lost its trailing whitespace
LeadingWhitespace(str) ==
    LET r == rstrip(str) IN SubSeq(r, 1, Len(r) - Len(lstrip(r)))

\* C12 as stated: prefix is the whitespace in front of a bullet, and a line
\* without a bullet has no prefix.
C12_NoBulletNoPrefix ==
    lpc = "done" =>
        /\ o.bullet # None => o.prefix = LeadingWhitespace(line)
        /\ o.bullet = None => o.prefix = None

\* C12, amended: prefix is the leading whitespace of the line, whether a
\* bullet follows it or not, and it is None exactly when the line without its
\* trailing whitespace has no leading whitespace.
C12_PrefixIsLeadingWhitespace ==
    lpc = "done" =>
        /\ o.prefix = (IF LeadingWhitespace(line) # << >> THEN LeadingWhitespace(line)
                       ELSE None)
        /\ o.prefix = None <=> (rstrip(line) = << >> \/ Head(line) \notin whitespace)

C12_Witness ==
    /\ lpc = "done"
    /\ line = <<" ", "\t", "a">>
    /\ o.bullet = None
    /\ o.prefix = <<" ", "\t">>

\* C13: text has neither leading nor trailing whitespace, empty is true
\* exactly when text is the empty string, and an empty or whitespace-only
\* line gives empty true, bullet None and the empty text.
C13_TextStripped ==
    lpc = "done" =>
        /\ o.text # << >> => (Head(o.text) \notin whitespace /\ Last(o.text) \notin whitespace)
        /\ o.empty <=> o.text = << >>
        /\ (\A k \in 1..Len(line) : line[k] \in whitespace) =>
              (o.empty /\ o.bullet = None /\ o.text = << >>)

C13_Witness ==
    /\ lpc = "done"
    /\ line = <<"*", " ", "\t", "a">>
    /\ o.bullet = <<"*">>
    /\ o.text = <<"a">>

\* C14: for a sequence of length n, sequence_slide yields exactly n triples
\* in input order, the i-th being (seq[i-1], seq[i], seq[i+1]) with the
\* missing value in place of a neighbour that is out of range; the empty
\* sequence yields no triple, a one-element sequence yields (missing, x, missing).
C14_SlidingTriples ==
    slpc = "done" =>
        LET n == Len(sl_seq) IN
        /\ Len(sl_out) = n
        /\ \A i \in 1..n :
              sl_out[i] = << IF i = 1 THEN sl_missing ELSE sl_seq[i - 1],
                             sl_seq[i],
                             IF i = n THEN sl_missing ELSE sl_seq[i + 1] >>
        /\ n = 0 => sl_out = << >>
        /\ n = 1 => sl_out = << <<sl_missing, sl_seq[1], sl_missing>> >>

C14_Witness ==
    /\ slpc = "done"
    /\ sl_missing = Missing
    /\ Len(sl_seq) = 3
    /\ sl_out = << <<Missing, sl_seq[1], sl_seq[2]>>, <<sl_seq[1], sl_seq[2], sl_seq[3]>>,
                   <<sl_seq[2], sl_seq[3], Missing>> >>

\* the types that are neither a text string nor a byte string
NonText == ArgTypes \ {"str", "bytes"}

\* C15: from_plain_text and entity_aware, given an argument that is neither
\* a text nor a byte string, raise an error at once, before any token or
\* atom is produced, and never process the value.
C15_NonTextRaisesAtOnce ==
    /\ s_type \in NonText =>
          /\ pc \in {"loop", "raised"}
          /\ pos = 0
          /\ yielded = << >>
    /\ txt_type \in NonText =>
          /\ fpc \in {"loop", "raised"}
          /\ idx = 0
          /\ res = << >>
          /\ html = << >>

\* the lines of txt, classified
Lines == LineInfos(txt)

RECURSIVE InListAfter(_)
\* whether a list is open once the first k lines are read: a bulleted line
\* opens or continues one, an indented line without a bullet leaves things
\* as they are, every other line ends it
InListAfter(k) ==
    IF k = 0 THEN FALSE
    ELSE IF Lines[k].empty THEN FALSE
    ELSE IF Lines[k].bullet # None THEN TRUE
    ELSE Lines[k].prefix # None /\ InListAfter(k - 1)

\* what line k is to the assembler
LineKind(k) ==
    IF Lines[k].empty THEN "empty"
    ELSE IF Lines[k].bullet # None THEN "item"
    ELSE IF Lines[k].prefix # None /\ InListAfter(k - 1) THEN "continuation"
    ELSE "plain"

\* the lines among the first k that end an open list
ClosingLines(k) ==
    { j \in 1..k : LineKind(j) \in {"empty", "plain"} /\ InListAfter(j - 1) }

EndsWith(str, tail) ==
    /\ Len(tail) <= Len(str)
    /\ SubSeq(str, Len(str) - Len(tail) + 1, Len(str)) = tail

\* C16 as stated: when the last non-empty line is a list item or a
\* continuation of one, the result ends with that line's escaped text, and
\* '</ul>' is emitted only in response to a later empty or plain line.
C16_EndsWithLastNonEmptyLine ==
    /\ fpc = "done" =>
          \A m \in 1..Len(Lines) :
              (/\ LineKind(m) \in {"item", "continuation"}
               /\ \A j \in (m + 1)..Len(Lines) : Lines[j].empty)
              => /\ res # << >>
                 /\ Last(res) = html_escape(Lines[m].text)
                 /\ EndsWith(html, html_escape(Lines[m].text))
    /\ Count(res, TagCloseUl) <= Cardinality(ClosingLines(idx))

\* C16, amended: when the last line of the input is a list item or a
\* continuation of one, the list stays open and the result ends with that
\* line's escaped text; '</ul>' is emitted only in response to a later empty
\* line, also one at the very end of the input, or to a later plain line.
C16_EndsWithLastLine ==
    /\ (idx >= 1 /\ LineKind(idx) \in {"item", "continuation"}) =>
          /\ in_list = 1
          /\ Len(res) >= 2
          /\ Last(res) = html_escape(Lines[idx].text)
          /\ res[Len(res) - 1] = (IF LineKind(idx) = "item" THEN TagLi ELSE TagBr)
    /\ (fpc = "done" /\ Lines # << >> /\ LineKind(Len(Lines)) \in {"item", "continuation"}) =>
          EndsWith(html, html_escape(Lines[Len(Lines)].text))
    /\ Count(res, TagCloseUl) = Cardinality(ClosingLines(idx))
    /\ (idx >= 1 /\ LineKind(idx) \in {"empty", "plain"} /\ InListAfter(idx - 1)) =>
          TagCloseUl \in { res[k] : k \in 1..Len(res) }

C16_Witness ==
    /\ fpc = "done"
    /\ txt = <<"*", " ", "<", "\n", " ", ">">>
    /\ res = << TagUl, TagLi, escape_char("<"), TagBr, escape_char(">") >>
    /\ in_list = 1

\* C20: for a plain-text line (not empty, not bulleted, not a continuation
\* inside a list) '<p>' precedes the text exactly when a list was open at
\* that line (it is closed with '</ul>' first), or the line is the first of
\* the input, or the line before it was empty; otherwise '<br>' precedes it.
C20_ParagraphOrBreak ==
    (idx >= 1 /\ LineKind(idx) = "plain") =>
        LET wasInList == InListAfter(idx - 1)
            first     == idx = 1
            prevEmpty == idx > 1 /\ Lines[idx - 1].empty
            n         == Len(res)
        IN  /\ n >= 2
            /\ res[n] = html_escape(Lines[idx].text)
            /\ res[n - 1] = (IF wasInList \/ first \/ prevEmpty THEN TagP ELSE TagBr)
            /\ wasInList => (n >= 3 /\ res[n - 2] = TagCloseUl)
            /\ (~wasInList /\ n >= 3) => res[n - 2] \notin {TagP, TagBr, TagLi, TagUl}
            /\ in_list = 0

C20_Witness ==
    /\ fpc = "done"
    /\ txt = <<"a", "\n", "&", "\n", "*", " ", "<">>
    /\ res = << TagP, <<"a">>, TagBr, escape_char("&"), TagUl, TagLi, escape_char("<") >>

\* C18: a UniqueStack, constructed from any sequence and after any appends
\* and extends, holds no value twice, and appending a value that is present
\* removes it from its old position and puts it at the end.
C18_NoValueTwice ==
    ustpc = "live" =>
        /\ \A i, j \in 1..Len(ust) : ust[i] = ust[j] => i = j
        /\ \A val \in UstValues :
              UniqueStack_append(ust, val) = Append(SelectSeq(ust, LAMBDA x : x # val), val)

\* what an assignment d[key] = val does, seen from the two states of the step
SetItemStep ==
    LET c        == wp_call'
        had      == c.key \in DOMAIN wp_data
        rejected == c.raised # "none"
    IN  /\ c.raised \in {"none", "ValueError"}
        /\ (had /\ wp_class = "WriteProtected") => rejected
        /\ (had /\ wp_class = "ChangeProtected") =>
              (~rejected <=> (c.val.num = wp_data[c.key].num
                              /\ c.val.type = wp_data[c.key].type))
        /\ had => (c.key \in DOMAIN wp_data' /\ wp_data'[c.key] = wp_data[c.key])
        /\ wp_frozen => DOMAIN wp_data' \subseteq DOMAIN wp_data
        /\ rejected => (wp_data' = wp_data /\ wp_frozen' = wp_frozen)
        /\ ~rejected => wp_data' = Put(wp_data, c.key, c.val)

\* C19: item assignment never replaces the value of an existing key by a
\* different one: WriteProtected rejects every assignment to an existing key,
\* ChangeProtected accepts it only for an equal value of the same type; once
\* frozen, no assignment adds a key; a rejected assignment raises ValueError
\* and leaves the dict unchanged.
C19_ProtectedAssignment ==
    [][wp_call'.op = "setitem" => SetItemStep]_vars

C19_Witness ==
    /\ wp_class = "ChangeProtected"
    /\ wp_frozen
    /\ "a" \in DOMAIN wp_data
    /\ wp_data["a"] = [num |-> 1, type |-> "int"]
    /\ wp_call = [op |-> "setitem", key |-> "a", val |-> [num |-> 1, type |-> "float"],
                  raised |-> "ValueError"]

\* the value of the topmost member dict that has the key
TopmostValue(stack, key) ==
    LET holders == { i \in 1..Len(stack) : key \in DOMAIN stack[i] } IN
    IF holders = {} THEN [raised |-> "KeyError"]
    ELSE [raised |-> "none",
          value  |-> stack[CHOOSE i \in holders : \A j \in holders : j <= i][key]]

\* what reading a stack shows: every lookup, the items and the height
Readings(st) ==
    [lookups |-> [key \in SodKeys |-> StackOfDicts_getitem(st, key)],
     items   |-> LET r == StackOfDicts_items(st)
                 IN  IF r.raised = "none" THEN [raised |-> "none", value |-> r.value]
                     ELSE [raised |-> r.raised],
     height  |-> StackOfDicts_height(st)]

\* C17: sod[key] gives the value of the member dict pushed last, and not yet
\* popped, that has the key, KeyError if none has it; pop returns the dict
\* pushed last, and after a push and a pop every lookup, the items and the
\* height are what they were before the push.
C17_LookupAndPushPop ==
    sodpc = "live" =>
        /\ \A key \in SodKeys :
              StackOfDicts_getitem(SodState, key) = TopmostValue(sod_stack, key)
        /\ sod_ret.op = "getitem" => sod_ret.result = TopmostValue(sod_stack, sod_ret.key)
        /\ sod_stack # << >> =>
              LET q == StackOfDicts_pop(SodState)
              IN  q.raised = "none" /\ q.value = Last(sod_stack)
        /\ \A dic \in SodDicts : \A keys \in KeyOrders(dic) :
              LET p == StackOfDicts_push(SodState, dic, keys) IN
              p.raised = "none" =>
                  LET q    == StackOfDicts_pop(p.st)
                      read == StackOfDicts_pop(StackOfDicts_items(p.st).st)
                  IN  /\ \A key \in SodKeys :
                            StackOfDicts_getitem(p.st, key) =
                                IF key \in DOMAIN dic
                                THEN [raised |-> "none", value |-> dic[key]]
                                ELSE StackOfDicts_getitem(SodState, key)
                      /\ q.raised = "none"
                      /\ q.value = dic
                      /\ Readings(q.st) = Readings(SodState)
                      /\ read.raised = "none"
                      /\ read.value = dic
                      /\ Readings(read.st) = Readings(SodState)

C17_Witness ==
    /\ sodpc = "live"
    /\ sod_stack = << [a |-> 1], [a |-> 2, b |-> 2] >>
    /\ sod_checked
    /\ sod_ret = [op |-> "getitem", key |-> "a", result |-> [raised |-> "none", value |-> 2]]

\* the step reads line idx' of the input
ReadsLine == fpc = "loop" /\ idx' = idx + 1 /\ idx' <= Len(Lines)

\* C21: for a bulleted line '<ul>' is emitted only if no list is open, and
\* then one is; '<li>' and the escaped text always follow; so consecutive
\* bulleted lines give one '<ul>' and one '<li>' per line, whatever their
\* bullet characters and indentation.
C21_BulletedLine ==
    /\ [][(ReadsLine /\ ~Lines[idx'].empty /\ Lines[idx'].bullet # None) =>
             /\ res' = res \o (IF in_list = 0 THEN <<TagUl>> ELSE << >>)
                           \o <<TagLi, html_escape(Lines[idx'].text)>>
             /\ in_list' = 1]_vars
    /\ [](/\ Count(res, TagLi) = Cardinality({ j \in 1..idx : LineKind(j) = "item" })
          /\ Count(res, TagUl) =
                 Cardinality({ j \in 1..idx : LineKind(j) = "item" /\ ~InListAfter(j - 1) }))

C21_Witness ==
    /\ fpc = "done"
    /\ txt = <<"*", " ", "<", "\n", " ", "-", " ", "a">>
    /\ res = << TagUl, TagLi, escape_char("<"), TagLi, <<"a">> >>

\* C22: in a list, a non-empty line without a bullet but with leading
\* whitespace gets '<br>' and its escaped text, no '</ul>' and no '<p>', and
\* the list stays open; outside a list the same line is a plain-text line.
C22_ContinuationLine ==
    [][(ReadsLine /\ ~Lines[idx'].empty /\ Lines[idx'].bullet = None
                  /\ Lines[idx'].prefix # None) =>
          IF in_list = 1
          THEN /\ res' = res \o <<TagBr, html_escape(Lines[idx'].text)>>
               /\ in_list' = 1
          ELSE /\ res' = res \o << IF idx = 0 \/ Lines[idx].empty THEN TagP ELSE TagBr,
                                    html_escape(Lines[idx'].text) >>
               /\ in_list' = 0]_vars

C22_Witness ==
    /\ fpc = "done"
    /\ txt = <<" ", ">", "\n", "*", " ", "<", "\n", " ", ">">>
    /\ res = << TagP, escape_char(">"), TagUl, TagLi, escape_char("<"), TagBr, escape_char(">") >>
    /\ in_list = 1

\* C23: an empty or whitespace-only line emits '</ul>' and leaves the list
\* if and only if a list is open; outside a list it emits nothing and changes
\* nothing; it never emits '<p>', '<br>' or text, so an input of empty and
\* whitespace-only lines gives the empty string.
C23_EmptyLine ==
    /\ [][(ReadsLine /\ Lines[idx'].empty) =>
             IF in_list = 1
             THEN res' = Append(res, TagCloseUl) /\ in_list' = 0
             ELSE res' = res /\ in_list' = in_list]_vars
    /\ []((fpc = "done" /\ \A k \in 1..Len(txt) : txt[k] \in whitespace) =>
             (res = << >> /\ html = << >>))

C23_Witness ==
    /\ fpc = "done"
    /\ txt = <<"*", " ", "<", "\n", " ", "\n">>
    /\ res = << TagUl, TagLi, escape_char("<"), TagCloseUl >>
    /\ in_list = 0

IsText(tok) == tok \notin StructTags /\ tok # << >> /\ EscapedOnly(tok)

\* C25: at every prefix of the token stream each token is one of the five
\* tags or an escaped text ('</p>' never occurs); '<p>', '<li>' and '<br>' are
\* followed at once by exactly one text token; '<ul>' is followed at once by
\* '<li>'; '<br>' stands only directly behind a text token; '</ul>' is
\* followed only by '<p>', '<ul>' or the end; and lists never nest: the
\* '<ul>' emitted minus the '</ul>' emitted is 0 or 1 and is the in_list flag.
C25_WellFormedStream ==
    LET n == Len(res) IN
    /\ \A k \in 1..n :
          /\ res[k] \in StructTags \/ IsText(res[k])
          /\ res[k] \in {TagP, TagLi, TagBr} =>
                (/\ k < n
                 /\ IsText(res[k + 1])
                 /\ k + 1 < n => res[k + 2] \in StructTags)
          /\ res[k] = TagUl => (k < n /\ res[k + 1] = TagLi)
          /\ res[k] = TagBr => (k > 1 /\ IsText(res[k - 1]))
          /\ (res[k] = TagCloseUl /\ k < n) => res[k + 1] \in {TagP, TagUl}
          /\ IsText(res[k]) => (k > 1 /\ res[k - 1] \in {TagP, TagLi, TagBr})
    /\ in_list \in {0, 1}
    /\ Count(res, TagUl) - Count(res, TagCloseUl) = in_list

C25_Witness ==
    /\ fpc = "loop"
    /\ idx = 2
    /\ txt = <<"*", " ", "<", "\n", "a", "\n", "*">>
    /\ res = << TagUl, TagLi, escape_char("<"), TagCloseUl, TagP, <<"a">> >>

\* C26: there is exactly one text token per non-empty line and none for an
\* empty line, in the order of the lines, each the escaped text of its
\* line; no non-empty line is skipped or emitted twice.
C26_OneTextPerLine ==
    TextTokens = [k \in 1..Len(TextsRead) |-> html_escape(TextsRead[k])]

C26_Witness ==
    /\ fpc = "done"
    /\ txt = <<"&", "\n", "\n", " ", "-", " ", "a">>
    /\ TextTokens = << escape_char("&"), <<"a">> >>
    /\ res = << TagP, escape_char("&"), TagUl, TagLi, <<"a">> >>

(***************************************************************************)
(* Claims about the pending state of entity_aware                          *)
(***************************************************************************)
\* what the scanner holds back, as the atoms flush() would make of it: the
\* characters of the entity prefix or the bare '&', then the buffered ones
Pending ==
    (IF v.entity_prefix # None THEN Chars(v.entity_prefix)
     ELSE IF v.in_entity # 0 THEN << <<"&">> >> ELSE << >>) \o Chars(buf)

\* the loop is about to read the character ch
Reads(ch) == pc = "loop" /\ pos < Len(s) /\ s[pos + 1] = ch

\* C24: whenever entity_aware reads an '&', the pending state (the characters
\* of the entity prefix or the bare '&', then the buffered characters) is
\* yielded first, one atom per character, and only then in_entity is set for
\* the new '&', with no prefix and an empty buffer left behind; in every
\* scanner state, also while '&#195;' is on the shelf.
C24_AmpersandFlushesPending ==
    Reads("&")
    => LET n == entity_aware_step(Cur, "&")
           k == Len(n.out) - Len(Pending)
       IN  /\ k >= Len(yielded)
           /\ SubSeq(n.out, 1, Len(yielded)) = yielded
           /\ SubSeq(n.out, k + 1, Len(n.out)) = Pending
           /\ n.v.in_entity = 1
           /\ n.v.entity_prefix = None
           /\ n.buf = << >>

\* the input holds no complete '&#195;'
NoShelfEntity == Occurrences(s, Shelf195) = 0

\* C27: for an input without a complete '&#195;' the shelf is never occupied
\* and entity_aware loses nothing: at every step the atoms yielded so far,
\* followed by the pending state (the bare '&' or the entity prefix, then the
\* buffer), spell exactly the part of the input read so far, and after the
\* final flush the atoms spell the whole input.
C27_NothingLostWithoutShelf ==
    (NoShelfEntity /\ pc \in {"loop", "done"})
    => /\ v.onshelf = None
       /\ Concat(yielded) \o Concat(Pending) = SubSeq(s, 1, pos)
       /\ pc = "done" => (Pending = << >> /\ Concat(yielded) = s)

\* an entity was yielded, another one is being buffered behind a prefix
C27_Witness ==
    /\ NoShelfEntity
    /\ pc = "loop"
    /\ \E k \in 1..Len(yielded) : IsRef(yielded[k])
    /\ v.entity_prefix = <<"&", "#">>
    /\ buf # << >>
    /\ pos < Len(s)

(***************************************************************************)
(* Claims about iterating a StackOfDicts                                   *)
(***************************************************************************)
\* the keys of the member dicts on the stack
KeysPresent(stack) == UNION { DOMAIN stack[i] : i \in 1..Len(stack) }

\* C28: after any pushes and pops, iterating a StackOfDicts yields each key
\* once and yields exactly the keys for which sod[key] succeeds, and len(sod)
\* is the number of distinct keys of the member dicts on the stack; checked
\* or not, built from one or several dicts.
C28_IterationMatchesLookup ==
    sodpc = "live" =>
        LET keys == StackOfDicts_iter(SodState).value IN
        /\ \A i, j \in 1..Len(keys) : keys[i] = keys[j] => i = j
        /\ { keys[k] : k \in 1..Len(keys) }
             = { key \in SodKeys : StackOfDicts_getitem(SodState, key).raised = "none" }
        /\ StackOfDicts_len(SodState).value = Cardinality(KeysPresent(sod_stack))
        /\ sod_ret.op = "len" => sod_ret.value = Cardinality(KeysPresent(sod_stack))

(***************************************************************************)
(* Claims about ConvenientLock                                             *)
(***************************************************************************)
\* the processes inside their 'with' block
Inside == { p \in Procs : lk_proc[p].pc = "inside" }

\* C29: with several processes using ConvenientLock on the same file name
\* and autodelete=True, at most one process is inside its 'with' block at any
\* time, under every interleaving of the steps of acquire and release.
C29_MutualExclusion ==
    (lk_opts # [idle |-> TRUE] /\ lk_opts.raised = "none" /\ lk_opts.autodelete)
    => Cardinality(Inside) <= 1

\* a delay that time.sleep can wait for: a number above zero
PositiveNumber(d) == d.type \in {"int", "float"} /\ ~d.nan /\ d.num > 0

\* what C30 says of the acquire of process p, n being the option tries
AcquireAsSpecified(p, n) ==
    LET pr == lk_proc[p] IN
    /\ pr.attempts <= n
    /\ \A k \in 1..Len(pr.slept) : pr.slept[k] = lk_opts.delay
    /\ pr.pc = "open" => (pr.fails = pr.attempts /\ Len(pr.slept) = pr.attempts)
    /\ pr.pc = "flock" => (pr.fails = pr.attempts - 1 /\ Len(pr.slept) = pr.fails)
    /\ pr.pc = "sleep" => (pr.fails = pr.attempts /\ Len(pr.slept) = pr.fails /\ pr.attempts < n)
    /\ (pr.pc \in {"inside", "unlink", "out", "release_raised"} /\ pr.attempts > 0)
         => (pr.fails = pr.attempts - 1 /\ Len(pr.slept) = pr.fails)
    /\ pr.pc = "acquire_raised"
         => (pr.exc = "LockError" /\ pr.fails = n /\ pr.attempts = n /\ Len(pr.slept) = n - 1)
    /\ pr.fails = n => (pr.pc = "acquire_raised" /\ pr.exc = "LockError")

\* C30: acquire with tries = n makes at most n attempts to create the lock
\* file, sleeps for delay exactly once between two attempts and never after
\* the last one, stops at the first attempt that succeeds and re-raises
\* LockError exactly when all n attempts failed; the options that were
\* accepted hold a positive numeric delay whenever n > 1.
C30_AcquireRetries ==
    (lk_opts # [idle |-> TRUE] /\ lk_opts.raised = "none")
    => /\ lk_opts.tries >= 1
       /\ lk_opts.tries > 1 => PositiveNumber(lk_opts.delay)
       /\ \A p \in Procs : AcquireAsSpecified(p, lk_opts.tries)


====
